---- MODULE Spec2Model ----
(***************************************************************************)
(* Model of src/write.ts of github-action-benchmark: the publish of one    *)
(* benchmark result (writeBenchmark), the history file data.js             *)
(* (loadDataJson / storeDataJson), the push with one rebase-and-retry      *)
(* (pushGitHubPages) and the regression check (findAlerts / alert).        *)
(*                                                                         *)
(* git, the file system and the GitHub API are collaborators: every call   *)
(* to one of them either succeeds or throws, chosen nondeterministically.  *)
(* A failing fs.writeFile is taken to leave the file as it was.            *)
(***************************************************************************)
EXTENDS Integers, Sequences, FiniteSets, TLC

VARIABLES
    pc,         \* position of writeBenchmark: the statement about to run
    config,     \* the Config argument plus the github.context payload read at 267-268
    bench,      \* the Benchmark argument
    now,        \* Date.now(): ticks once per invocation
    file,       \* data.js in the working copy
    indexHtml,  \* whether index.html exists in the data directory
    data,       \* local `data` of writeBenchmark
    loaded,     \* what loadDataJson returned, before the merge touched it
    prevBench,  \* local `prevBench` of writeBenchmark
    err,        \* the exception in flight (pending while the finally block runs)
    result,     \* "idle" before the call, then "running", "returned" or "threw"
    trace,      \* the collaborator calls and steps of this invocation, in order
    onBranch,   \* the ref the working copy is on: "orig" or "publish"
    alerts,     \* what findAlerts returned in this invocation, if it ran
    report,     \* what buildAlertComment returned in this invocation, if it ran
    comments,   \* commit comments created through the GitHub API
    arrived,    \* the (name, bench) pairs storeDataJson has written, in order
    file0,      \* data.js as it was before the first invocation
    remote,     \* the publish branch of the remote: its ref and data.js at its tip
    runs        \* concurrent invocations, each on a working copy of its own (SpecRace)

vars == << pc, config, bench, now, file, indexHtml, data, loaded, prevBench, err,
           result, trace, onBranch, alerts, report, comments, arrived, file0,
           remote, runs >>

-----------------------------------------------------------------------------
(* Bounds *)

\* invocations of writeBenchmark on one working copy (SpecHistory)
MaxPublishes == 3
\* measurements per entry (SpecAlerts)
MaxBenches == 2
\* concurrent invocations (SpecRace)
MaxRuns == 2

-----------------------------------------------------------------------------
(* Values *)

SuiteNames == {"s1", "s2"}
Tools == {"cargo", "go", "benchmarkjs", "pytest"}

Measurement(n, v) == [name |-> n, value |-> v]
Benchmark(id, tool, benches) == [commit |-> [id |-> id], tool |-> tool, benches |-> benches]

\* `null`, the initial value of prevBench
Null == Benchmark("null", "null", <<>>)

\* a number that is the quotient a / b of two non-negative integers, kept exact
Div(a, b) == [n |-> a, d |-> b]
Num(a) == Div(a, 1)

\* bug: >= for >
GreaterOrEqual(r, t) ==
    IF r.d = 0 THEN r.n > 0 ELSE r.n * t.d >= t.n * r.d

\* r > t on IEEE doubles, t finite: x/0 is Infinity for x > 0, and 0/0 is NaN,
\* which compares false
GreaterThan(r, t) ==
    IF r.d = 0 THEN r.n > 0 ELSE r.n * t.d > t.n * r.d

SeqsUpTo(S, n) == UNION { [1..k -> S] : k \in 0..n }

IsPrefix(s, t) == Len(s) <= Len(t) /\ SubSeq(t, 1, Len(s)) = s

-----------------------------------------------------------------------------
(* data.js: text is a sequence of pieces, a piece being literal characters *)
(* or the text of one JSON document.                                       *)

NoEntries == [n \in {} |-> <<>>]

\* a parsed document: a History object, or another JSON value (type says which)
DataJson(lastUpdate, repoUrl, entries) ==
    [type |-> "History", lastUpdate |-> lastUpdate, repoUrl |-> repoUrl, entries |-> entries]

\* the JSON value null
JsonNull == [type |-> "null", lastUpdate |-> 0, repoUrl |-> "", entries |-> NoEntries]

\* the JSON object {}, which has no entries property
JsonEmptyObject == [type |-> "object", lastUpdate |-> 0, repoUrl |-> "", entries |-> NoEntries]

EmptyDefault == DataJson(0, "", NoEntries)

Lit(s) == [kind |-> "lit", s |-> s, doc |-> EmptyDefault]
JsonText(d) == [kind |-> "json", s |-> "", doc |-> d]

SCRIPT_PREFIX == << Lit("window.BENCHMARK_DATA"), Lit(" = ") >>

NoFile == [exists |-> FALSE, readable |-> FALSE, text |-> <<>>]
FileOf(text) == [exists |-> TRUE, readable |-> TRUE, text |-> text]

\* a file fs.readFile fails on (no permission)
Unreadable(text) == [exists |-> TRUE, readable |-> FALSE, text |-> text]

\* String.prototype.slice(n)
Slice(text, n) == SubSeq(text, n + 1, Len(text))

\* JSON.parse: the text must be exactly one document
CanParse(text) == Len(text) = 1 /\ text[1].kind = "json"
JSONparse(text) == text[1].doc

\* JSON.stringify(data, null, 2)
JSONstringify(d) == << JsonText(d) >>

\* lines 21-36: whatever JSON.parse returns is returned as it is
loadDataJson(f) ==
    IF ~f.exists \/ ~f.readable THEN EmptyDefault
    ELSE LET json == Slice(f.text, Len(SCRIPT_PREFIX))
         IN  IF CanParse(json) THEN JSONparse(json) ELSE EmptyDefault

storeDataJsonNoPrefix(d) == FileOf(JSONstringify(d))

storeDataJson(d) == FileOf(SCRIPT_PREFIX \o JSONstringify(d))

-----------------------------------------------------------------------------
(* The merge of writeBenchmark (lines 285-304) *)

\* for (const e of entries.slice().reverse()) if (e.commit.id !== id) { prevBench = e; break }
RECURSIVE ScanBack(_, _, _)
ScanBack(entries, id, i) ==
    IF i = 0 THEN Null
    ELSE IF entries[i].commit.id # id THEN entries[i]
    ELSE ScanBack(entries, id, i - 1)

RECURSIVE ScanForward(_, _, _)
ScanForward(entries, id, i) ==
    IF i > Len(entries) THEN Null
    ELSE IF entries[i].commit.id # id THEN entries[i]
    ELSE ScanForward(entries, id, i + 1)

lastDifferentCommitFirst(entries, id) == ScanForward(entries, id, 1)

lastDifferentCommit(entries, id) == ScanBack(entries, id, Len(entries))

\* bug: the suite's sequence is replaced by the new entry instead of extended
mergeEntriesReplacing(entries, name, b) ==
    [n \in DOMAIN entries \cup {name} |-> IF n = name THEN << b >> ELSE entries[n]]

\* data.entries after lines 291-304
mergeEntries(entries, name, b) ==
    IF name \notin DOMAIN entries
    THEN [n \in DOMAIN entries \cup {name} |-> IF n = name THEN << b >> ELSE entries[n]]
    ELSE [entries EXCEPT ![name] = Append(@, b)]

\* prevBench after lines 285-304
mergePrevBench(entries, name, b) ==
    IF name \notin DOMAIN entries THEN Null
    ELSE lastDifferentCommit(entries[name], b.commit.id)

-----------------------------------------------------------------------------
(* findAlerts and biggerIsBetter (lines 79-122) *)

biggerIsBetterInverted(tool) ==
    CASE tool = "cargo" -> FALSE
      [] tool = "go" -> TRUE
      [] tool = "benchmarkjs" -> TRUE
      [] tool = "pytest" -> FALSE

biggerIsBetter(tool) ==
    CASE tool = "cargo" -> FALSE
      [] tool = "go" -> FALSE
      [] tool = "benchmarkjs" -> TRUE
      [] tool = "pytest" -> TRUE

\* Array.prototype.find(b => b.name === name): the index of the first match, 0 for undefined
RECURSIVE FindFrom(_, _, _)
FindFrom(benches, name, i) ==
    IF i > Len(benches) THEN 0
    ELSE IF benches[i].name = name THEN i
    ELSE FindFrom(benches, name, i + 1)

Find(benches, name) == FindFrom(benches, name, 1)

Alert(current, prev, ratio) == [current |-> current, prev |-> prev, ratio |-> ratio]

RECURSIVE findAlertsFrom(_, _, _, _)
findAlertsFrom(curEntry, prevEntry, threshold, i) ==
    IF i > Len(curEntry.benches) THEN << >>
    ELSE LET current == curEntry.benches[i]
             p == Find(prevEntry.benches, current.name)
             rest == findAlertsFrom(curEntry, prevEntry, threshold, i + 1)
         IN  IF p = 0 THEN rest
             ELSE LET prev == prevEntry.benches[p]
                      ratio == IF biggerIsBetter(curEntry.tool)
                               THEN Div(prev.value, current.value)
                               ELSE Div(current.value, prev.value)
                  IN  IF GreaterThan(ratio, threshold)
                      THEN << Alert(current, prev, ratio) >> \o rest
                      ELSE rest

findAlerts(curEntry, prevEntry, threshold) == findAlertsFrom(curEntry, prevEntry, threshold, 1)

\* what `alerts` holds before findAlerts has run
NotComputed == [computed |-> FALSE, list |-> << >>]
Computed(list) == [computed |-> TRUE, list |-> list]

-----------------------------------------------------------------------------
(* buildAlertComment (lines 134-186): the parts of the body the claims read *)

NoReport == [built |-> FALSE, title |-> "", rows |-> << >>, current |-> "", previous |-> ""]

buildAlertComment(list, curEntry, prevEntry, threshold) ==
    [built |-> TRUE,
     title |-> IF threshold = Num(0) THEN "# Performance Report"
               ELSE "# :warning: **Performance Alert** :warning:",
     rows |-> list,
     current |-> curEntry.commit.id,
     previous |-> prevEntry.commit.id]

-----------------------------------------------------------------------------
(* Exceptions: a thrown value is an Error with a message, or some other    *)
(* value; a message is a sequence of fragments.                            *)

Frag(s) == [text |-> s, body |-> NoReport]
BodyFrag(r) == [text |-> "body", body |-> r]

NoErr == [thrown |-> FALSE, isError |-> FALSE, message |-> << >>, src |-> "none"]
Error(src, message) == [thrown |-> TRUE, isError |-> TRUE, message |-> message, src |-> src]
NonError(src, message) == [thrown |-> TRUE, isError |-> FALSE, message |-> message, src |-> src]

\* String.prototype.includes
Includes(message, s) == \E i \in 1..Len(message) : message[i] = Frag(s)

RemoteRejected == "[remote rejected]"

\* what git.push can throw: an Error naming the rejection, another Error, and a
\* value that is no Error although its text names the rejection
PushFailures(step) ==
    { Error(step, << Frag("git push failed: "), Frag(RemoteRejected) >>),
      Error(step, << Frag("git push failed: "), Frag("network") >>),
      NonError(step, << Frag(RemoteRejected) >>) }

CmdError(step) == Error(step, << Frag("command failed") >>)

-----------------------------------------------------------------------------
(* Inputs *)

Configs ==
    { c \in [ name : SuiteNames,
              githubToken : BOOLEAN,          \* whether github-token is set
              autoPush : BOOLEAN,
              skipFetchGhPages : BOOLEAN,
              commentOnAlert : BOOLEAN,
              failOnAlert : BOOLEAN,
              alertThreshold : { Num(0), Num(1) },
              isPrivateRepo : BOOLEAN,        \* payload.repository?.private ?? false
              repository : BOOLEAN ] :        \* whether payload.repository is there
        c.isPrivateRepo => c.repository }

\* the configurations of SpecHistory: no alerting, a public repository
HistoryConfigs ==
    { c \in Configs :
        /\ ~c.commentOnAlert /\ ~c.failOnAlert /\ c.alertThreshold = Num(1)
        /\ ~c.isPrivateRepo /\ c.repository /\ ~c.skipFetchGhPages /\ c.autoPush }

entryA == Benchmark("A", "cargo", << Measurement("a", 1) >>)
entryA2 == Benchmark("A", "cargo", << Measurement("a", 2) >>)
entryB == Benchmark("B", "cargo", << Measurement("a", 1), Measurement("b", 2) >>)
entryC == Benchmark("C", "cargo", << Measurement("a", 2) >>)

Benches ==
    { Benchmark(id, tool, benches) :
        id \in {"A", "C"}, tool \in {"cargo", "benchmarkjs"},
        benches \in { << Measurement("a", 2), Measurement("c", 1) >>,
                      << Measurement("a", 1) >>,
                      << Measurement("a", 0) >> } }

HistoryBenches ==
    { Benchmark(id, "cargo", << Measurement("a", 1) >>) : id \in {"B", "C"} }

fileABC ==
    storeDataJson(DataJson(0, "old", [n \in {"s1"} |-> << entryA, entryA2, entryB, entryC >>]))

fileTwoSuites ==
    storeDataJson(DataJson(0, "old", [n \in SuiteNames |->
                                        IF n = "s1" THEN << entryA >> ELSE << entryB >>]))

fileEmpty == FileOf(<< >>)

fileCorrupt == FileOf(SCRIPT_PREFIX \o << Lit("{ \"lastUpdate\": ") >>)

fileUnreadable == Unreadable(fileABC.text)

\* window.BENCHMARK_DATA = null
fileNull == FileOf(SCRIPT_PREFIX \o JSONstringify(JsonNull))

\* window.BENCHMARK_DATA = {}
fileEmptyObject == FileOf(SCRIPT_PREFIX \o JSONstringify(JsonEmptyObject))

InitFiles ==
    { NoFile, fileEmpty, fileCorrupt, fileUnreadable, fileNull, fileEmptyObject,
      fileABC, fileTwoSuites }

-----------------------------------------------------------------------------
(* Concurrent invocations: the remote publish branch and one record for each *)
(* invocation with its working copy.                                         *)

Procs == 1..MaxRuns

\* the branch ref, counted in pushes, and data.js at the tip
Remote(ref, f) == [ref |-> ref, file |-> f]

\* the configurations of SpecRace: a token and auto-push, fail-on-alert
RaceConfigs ==
    { c \in Configs :
        /\ c.githubToken /\ c.autoPush /\ c.repository /\ ~c.isPrivateRepo
        /\ c.failOnAlert /\ ~c.commentOnAlert /\ c.alertThreshold = Num(1) }

\* the commit each invocation publishes a result for
RaceIds == << "P", "Q", "R", "S" >>

\* the result invocation p publishes: slower than entryA, as slow as the others'
RaceBench(p) == Benchmark(RaceIds[p], "cargo", << Measurement("a", 3) >>)

RaceFiles == { NoFile, fileTwoSuites }

\* the configuration slot of an invocation before its call
IdleConfig == CHOOSE c \in RaceConfigs : TRUE

\* an invocation not yet started, its working copy a clone holding f
IdleRun(f) ==
    [ pc |-> "idle", config |-> IdleConfig, bench |-> Null,
      base |-> 0, parent |-> f, wc |-> f, loaded |-> EmptyDefault, prevBench |-> Null,
      called |-> FALSE, passed |-> Null, alerts |-> NotComputed,
      pushed |-> FALSE, retried |-> FALSE, result |-> "idle", err |-> NoErr ]

-----------------------------------------------------------------------------
(* writeBenchmark, one action per statement that calls a collaborator *)

\* one entry of the trace: the call or step, and what it threw (NoErr when it returned)
Step(op, e) == [op |-> op, ok |-> ~e.thrown, e |-> e]

Count(op) == Cardinality({ i \in 1..Len(trace) : trace[i].op = op })

htmlUrl == IF config.repository THEN "https://github.com/o/r" ELSE ""

Init ==
    /\ pc = "idle"
    /\ config = CHOOSE c \in HistoryConfigs : TRUE
    /\ bench = Null
    /\ now = 0
    /\ file \in InitFiles
    /\ indexHtml = file.exists
    /\ data = EmptyDefault
    /\ loaded = EmptyDefault
    /\ prevBench = Null
    /\ err = NoErr
    /\ result = "idle"
    /\ trace = << >>
    /\ onBranch = "orig"
    /\ alerts = NotComputed
    /\ report = NoReport
    /\ comments = << >>
    /\ arrived = << >>
    /\ file0 = file
    /\ remote = Remote(0, NoFile)
    /\ runs = [p \in Procs |-> IdleRun(NoFile)]

\* the call writeBenchmark(b, c): the locals are fresh, the working copy is as it was left
Call(c, b) ==
    /\ config' = c
    /\ bench' = b
    /\ now' = now + 1
    /\ pc' = "switch"
    /\ data' = EmptyDefault
    /\ loaded' = EmptyDefault
    /\ prevBench' = Null
    /\ err' = NoErr
    /\ result' = "running"
    /\ trace' = << >>
    /\ alerts' = NotComputed
    /\ report' = NoReport
    /\ UNCHANGED << file, indexHtml, onBranch, comments, arrived, file0, remote, runs >>

\* one invocation, under every configuration
Invoke ==
    /\ pc = "idle"
    /\ \E c \in Configs, b \in Benches : Call(c, b)

\* one invocation after another on the same working copy
Publish ==
    /\ pc \in {"idle", "done"}
    /\ now < MaxPublishes
    /\ \E c \in HistoryConfigs, b \in HistoryBenches : Call(c, b)

\* a throw inside the try block: the finally block runs with e pending
Throw(op, e) ==
    /\ trace' = Append(trace, Step(op, e))
    /\ err' = e
    /\ pc' = "finally"

Ok(op, next) ==
    /\ trace' = Append(trace, Step(op, NoErr))
    /\ pc' = next
    /\ err' = err

\* line 271, before the try block: a failure leaves writeBenchmark at once
Switch ==
    /\ pc = "switch"
    /\ \/ /\ Ok("switch", "pull")
          /\ onBranch' = "publish"
          /\ result' = result
       \/ /\ trace' = Append(trace, Step("switch", CmdError("switch")))
          /\ err' = CmdError("switch")
          /\ pc' = "done"
          /\ result' = "threw"
          /\ onBranch' = onBranch
    /\ UNCHANGED << config, bench, now, file, indexHtml, data, loaded, prevBench,
                    alerts, report, comments, arrived, file0, remote, runs >>

\* lines 274-281
SyncPull ==
    /\ pc = "pull"
    /\ IF ~config.skipFetchGhPages /\ (~config.isPrivateRepo \/ config.githubToken)
       THEN Ok("pull", "mkdir") \/ Throw("pull", CmdError("pull"))
       ELSE IF config.isPrivateRepo
            THEN Ok("warning: 'git pull' was skipped", "mkdir")
            ELSE pc' = "mkdir" /\ UNCHANGED << trace, err >>
    /\ UNCHANGED << config, bench, now, file, indexHtml, data, loaded, prevBench, result,
                    onBranch, alerts, report, comments, arrived, file0, remote, runs >>

\* line 283
Mkdir ==
    /\ pc = "mkdir"
    /\ Ok("mkdirP", "load") \/ Throw("mkdirP", CmdError("mkdirP"))
    /\ UNCHANGED << config, bench, now, file, indexHtml, data, loaded, prevBench, result,
                    onBranch, alerts, report, comments, arrived, file0, remote, runs >>

\* line 286
Load ==
    /\ pc = "load"
    /\ data' = loadDataJson(file)
    /\ loaded' = loadDataJson(file)
    /\ Ok("load", "merge")
    /\ UNCHANGED << config, bench, now, file, indexHtml, prevBench, result,
                    onBranch, alerts, report, comments, arrived, file0, remote, runs >>

TypeError(message) == Error("merge", << Frag(message) >>)

\* lines 287-304: the assignments of lines 287-288 need an object, the read of
\* data.entries[name] at line 291 needs the entries property
Merge ==
    /\ pc = "merge"
    /\ CASE data.type = "null" ->
                /\ Throw("merge", TypeError("Cannot set property 'lastUpdate' of null"))
                /\ UNCHANGED << data, prevBench >>
         [] data.type = "object" ->
                /\ data' = [data EXCEPT !.lastUpdate = now, !.repoUrl = htmlUrl]
                /\ Throw("merge", TypeError("Cannot read property of undefined"))
                /\ UNCHANGED prevBench
         [] OTHER ->
                /\ data' = DataJson(now, htmlUrl, mergeEntries(data.entries, config.name, bench))
                /\ prevBench' = mergePrevBench(data.entries, config.name, bench)
                /\ Ok("merge", "store")
    /\ UNCHANGED << config, bench, now, file, indexHtml, loaded, result,
                    onBranch, alerts, report, comments, arrived, file0, remote, runs >>

\* line 306
Store ==
    /\ pc = "store"
    /\ \/ /\ file' = storeDataJson(data)
          /\ arrived' = Append(arrived, [name |-> config.name, bench |-> bench])
          /\ Ok("store", "add")
       \/ /\ Throw("store", CmdError("store"))
          /\ UNCHANGED << file, arrived >>
    /\ UNCHANGED << config, bench, now, indexHtml, data, loaded, prevBench, result,
                    onBranch, alerts, report, comments, file0, remote, runs >>

\* line 308
AddData ==
    /\ pc = "add"
    /\ Ok("add", "index") \/ Throw("add", CmdError("add"))
    /\ UNCHANGED << config, bench, now, file, indexHtml, data, loaded, prevBench, result,
                    onBranch, alerts, report, comments, arrived, file0, remote, runs >>

\* line 310, addIndexHtmlIfNeeded (lines 44-57)
AddIndexHtmlIfNeeded ==
    /\ pc = "index"
    /\ IF indexHtml
       THEN pc' = "commit" /\ UNCHANGED << trace, err, indexHtml >>
       ELSE \/ Throw("write index.html", CmdError("write index.html")) /\ indexHtml' = FALSE
            \/ Throw("add index.html", CmdError("add index.html")) /\ indexHtml' = TRUE
            \/ Ok("add index.html", "commit") /\ indexHtml' = TRUE
    /\ UNCHANGED << config, bench, now, file, data, loaded, prevBench, result,
                    onBranch, alerts, report, comments, arrived, file0, remote, runs >>

\* line 312
Commit ==
    /\ pc = "commit"
    /\ Ok("commit", "push") \/ Throw("commit", CmdError("commit"))
    /\ UNCHANGED << config, bench, now, file, indexHtml, data, loaded, prevBench, result,
                    onBranch, alerts, report, comments, arrived, file0, remote, runs >>

\* bug: a token alone is enough to push
shouldPushOnToken(cfg) == cfg.githubToken

\* line 314: the condition of the automatic push
shouldPush(cfg) == cfg.githubToken /\ cfg.autoPush

\* lines 314-321 with auto-push off: the push is skipped
SkipPush ==
    /\ pc = "push"
    /\ ~shouldPush(config)
    /\ pc' = "alert"
    /\ UNCHANGED << config, bench, now, file, indexHtml, data, loaded, prevBench, err, result,
                    trace, onBranch, alerts, report, comments, arrived, file0, remote, runs >>

\* bug: a retry loop, a rejected retried push goes back to the rebase
retryAgainIfRejected(e) ==
    IF e.isError /\ Includes(e.message, RemoteRejected) THEN "rebase" ELSE "finally"

\* bug: the failure of the retried push is caught and the publish goes on
swallowRetryFailure(e) == "alert"

\* where a failure e of the retried push (line 74) leads: nothing catches it
afterRetryFailure(e) == "finally"

\* bug: every failure of the first push is retried
retryableAny(e) == TRUE

\* line 64, negated: the failure of the first push is caught and the push retried
retryable(e) == e.isError /\ Includes(e.message, RemoteRejected)

\* pushGitHubPages, lines 60-68: the first push
FirstPush ==
    /\ pc = "push"
    /\ shouldPush(config)
    /\ \/ Ok("push", "alert")
       \/ \E e \in PushFailures("push") :
            IF retryable(e)
            THEN /\ trace' = Append(trace, Step("push", e))
                 /\ pc' = "rebase"
                 /\ err' = err
            ELSE Throw("push", e)
    /\ UNCHANGED << config, bench, now, file, indexHtml, data, loaded, prevBench, result,
                    onBranch, alerts, report, comments, arrived, file0, remote, runs >>

\* bug: after the rebase the publish starts over from the load
RebasePullThenReload ==
    /\ pc = "rebase"
    /\ Ok("pull --rebase", "load") \/ Throw("pull --rebase", CmdError("pull --rebase"))
    /\ UNCHANGED << config, bench, now, file, indexHtml, data, loaded, prevBench, result,
                    onBranch, alerts, report, comments, arrived, file0, remote, runs >>

\* pushGitHubPages, line 73
RebasePull ==
    /\ pc = "rebase"
    /\ Ok("pull --rebase", "retry") \/ Throw("pull --rebase", CmdError("pull --rebase"))
    /\ UNCHANGED << config, bench, now, file, indexHtml, data, loaded, prevBench, result,
                    onBranch, alerts, report, comments, arrived, file0, remote, runs >>

\* pushGitHubPages, line 74
RetryPush ==
    /\ pc = "retry"
    /\ \/ Ok("push", "alert")
       \/ \E e \in PushFailures("retry") :
            /\ trace' = Append(trace, Step("push", e))
            /\ err' = IF afterRetryFailure(e) = "finally" THEN e ELSE err
            /\ pc' = afterRetryFailure(e)
    /\ UNCHANGED << config, bench, now, file, indexHtml, data, loaded, prevBench, result,
                    onBranch, alerts, report, comments, arrived, file0, remote, runs >>

-----------------------------------------------------------------------------
(* alert (lines 209-248) with leaveComment (lines 188-207) *)

Outcome(found, body, api, e) == [alerts |-> found, report |-> body, api |-> api, err |-> e]

CommentUrl == "https://github.com/o/r/commit/comment"

\* bug: the comparison runs although both flags are off
alertNeverDisabled(cfg) == FALSE

\* line 219: both comment-on-alert and fail-on-alert are disabled
alertDisabled(cfg) == ~cfg.commentOnAlert /\ ~cfg.failOnAlert

\* bug: the comment is attempted without a token
tokenNeverMissing(cfg) == FALSE

\* lines 234-235: a comment is wanted and there is no token to send it with
tokenMissing(cfg) == cfg.commentOnAlert /\ ~cfg.githubToken

\* bug: once a comment was sent the failure message is the comment's address only
alertMessageUrlOnly(cfg, body) ==
    IF cfg.commentOnAlert
    THEN << Frag("Comment was generated at "), Frag(CommentUrl) >>
    ELSE << BodyFrag(body) >>

\* lines 232, 238-241: the message of the failure, the report and then the
\* address of the comment if one was sent
alertMessage(cfg, body) ==
    IF cfg.commentOnAlert
    THEN << BodyFrag(body), Frag("Comment was generated at "), Frag(CommentUrl) >>
    ELSE << BodyFrag(body) >>

\* apiOk: whether client.repos.createCommitComment succeeds, should it be called
alert(cfg, curEntry, prevEntry, apiOk) ==
    IF alertDisabled(cfg)
    THEN Outcome(NotComputed, NoReport, "none", NoErr)
    ELSE
    LET list == findAlerts(curEntry, prevEntry, cfg.alertThreshold)
        body == buildAlertComment(list, curEntry, prevEntry, cfg.alertThreshold)
    IN  IF list = << >> THEN Outcome(Computed(list), NoReport, "none", NoErr)
        ELSE IF ~cfg.repository
        THEN Outcome(Computed(list), NoReport, "none",
                     Error("alert", << Frag("Repository information is not available in payload") >>))
        ELSE IF tokenMissing(cfg)
        THEN Outcome(Computed(list), body, "none",
                     Error("alert", << Frag("'comment-on-alert' is set but github-token is not set") >>))
        ELSE IF cfg.commentOnAlert /\ ~apiOk
        THEN Outcome(Computed(list), body, "failed",
                     Error("alert", << Frag("createCommitComment failed") >>))
        ELSE Outcome(Computed(list), body,
                     IF cfg.commentOnAlert THEN "ok" ELSE "none",
                     IF cfg.failOnAlert THEN Error("alert", alertMessage(cfg, body)) ELSE NoErr)

\* bug: the check runs without a baseline
neverNull(p) == FALSE

\* line 325
isNull(p) == p = Null

\* lines 325-338
AlertStep ==
    /\ pc = "alert"
    /\ IF isNull(prevBench)
       THEN /\ pc' = "finally"
            /\ trace' = Append(trace, Step("alertStep", NoErr))
            /\ UNCHANGED << err, alerts, report, comments >>
       ELSE \E apiOk \in BOOLEAN :
            LET o == alert(config, bench, prevBench, apiOk)
            IN  /\ alerts' = o.alerts
                /\ report' = o.report
                /\ comments' = IF o.api = "ok"
                               THEN Append(comments, [commit_sha |-> bench.commit.id, body |-> o.report])
                               ELSE comments
                /\ trace' = trace \o << Step("alertStep", NoErr), Step("alert", NoErr) >>
                                  \o (IF o.api = "ok" THEN << Step("createCommitComment", NoErr) >>
                                      ELSE << >>)
                                  \o (IF ~o.err.thrown THEN << >>
                                      ELSE IF o.api = "failed"
                                      THEN << Step("createCommitComment", o.err) >>
                                      ELSE << Step("throw", o.err) >>)
                /\ err' = o.err
                /\ pc' = "finally"
    /\ UNCHANGED << config, bench, now, file, indexHtml, data, loaded, prevBench, result,
                    onBranch, arrived, file0, remote, runs >>

\* bug: the restore follows the try block instead of being its finally block
RestoreUnlessThrown ==
    /\ pc = "finally"
    /\ IF err.thrown
       THEN /\ result' = "threw"
            /\ UNCHANGED << trace, onBranch, err >>
       ELSE /\ trace' = Append(trace, Step("checkout -", NoErr))
            /\ onBranch' = "orig"
            /\ err' = err
            /\ result' = "returned"
    /\ pc' = "done"
    /\ UNCHANGED << config, bench, now, file, indexHtml, data, loaded, prevBench,
                    alerts, report, comments, arrived, file0, remote, runs >>

\* lines 339-342: the finally block; its own failure replaces the pending exception
Restore ==
    /\ pc = "finally"
    /\ \/ /\ trace' = Append(trace, Step("checkout -", NoErr))
          /\ onBranch' = "orig"
          /\ err' = err
          /\ result' = IF err.thrown THEN "threw" ELSE "returned"
       \/ /\ trace' = Append(trace, Step("checkout -", CmdError("checkout -")))
          /\ onBranch' = onBranch
          /\ err' = CmdError("checkout -")
          /\ result' = "threw"
    /\ pc' = "done"
    /\ UNCHANGED << config, bench, now, file, indexHtml, data, loaded, prevBench,
                    alerts, report, comments, arrived, file0, remote, runs >>

Steps ==
    \/ Switch \/ SyncPull \/ Mkdir \/ Load \/ Merge \/ Store \/ AddData
    \/ AddIndexHtmlIfNeeded \/ Commit \/ SkipPush \/ FirstPush \/ RebasePull
    \/ RetryPush \/ AlertStep \/ Restore

Next == Invoke \/ Steps

Spec == Init /\ [][Next]_vars

NextHistory == Publish \/ Steps

SpecHistory == Init /\ [][NextHistory]_vars

-----------------------------------------------------------------------------
(* findAlerts on its own: the entries and the threshold are drawn from     *)
(* bounded sets and findAlerts is applied to them.                         *)

AlertMeasurements == { Measurement(n, v) : n \in {"a", "b"}, v \in {0, 1, 2} }

AlertThresholds == { Num(0), Num(1), Div(3, 2) }

InitAlerts ==
    /\ pc = "findAlerts"
    /\ \E t \in AlertThresholds :
         config = [ (CHOOSE c \in HistoryConfigs : TRUE) EXCEPT !.alertThreshold = t ]
    /\ \E tool \in Tools, benches \in SeqsUpTo(AlertMeasurements, MaxBenches) :
         bench = Benchmark("B", tool, benches)
    /\ \E benches \in SeqsUpTo(AlertMeasurements, MaxBenches) :
         prevBench = Benchmark("A", "cargo", benches)
    /\ now = 0
    /\ file = NoFile
    /\ indexHtml = FALSE
    /\ data = EmptyDefault
    /\ loaded = EmptyDefault
    /\ err = NoErr
    /\ result = "running"
    /\ trace = << >>
    /\ onBranch = "publish"
    /\ alerts = NotComputed
    /\ report = NoReport
    /\ comments = << >>
    /\ arrived = << >>
    /\ file0 = NoFile
    /\ remote = Remote(0, NoFile)
    /\ runs = [p \in Procs |-> IdleRun(NoFile)]

\* line 224
FindAlertsCall ==
    /\ pc = "findAlerts"
    /\ alerts' = Computed(findAlerts(bench, prevBench, config.alertThreshold))
    /\ pc' = "found"
    /\ UNCHANGED << config, bench, now, file, indexHtml, data, loaded, prevBench, err,
                    result, trace, onBranch, report, comments, arrived, file0, remote, runs >>

NextAlerts == FindAlertsCall

SpecAlerts == InitAlerts /\ [][NextAlerts]_vars

-----------------------------------------------------------------------------
(* Concurrent invocations on working copies of their own and one remote.    *)
(* git push is an atomic compare-and-swap on the branch ref, git pull       *)
(* --rebase replays the local commit on the remote tip. What an invocation  *)
(* does between the switch and the commit touches its working copy only and *)
(* is one action.                                                           *)

\* line 267
HtmlUrl(cfg) == IF cfg.repository THEN "https://github.com/o/r" ELSE ""

\* the variables of the single working copy, which these invocations leave alone
single == << pc, config, bench, now, file, indexHtml, data, loaded, prevBench, err,
             result, trace, onBranch, alerts, report, comments, arrived, file0 >>

\* git push succeeds only as a fast-forward of the ref the local commit sits on
CanFastForward(r, rem) == r.base = rem.ref

\* the remote after the push of r's local commit
Pushed(rem, r) == Remote(rem.ref + 1, r.wc)

\* data.js after the local commit of r (the append of r.bench to its suite and
\* the new lastUpdate and repoUrl) is replayed on a tip holding f
Replay(f, r) ==
    LET mine == loadDataJson(r.wc)
    IN  storeDataJson(DataJson(mine.lastUpdate, mine.repoUrl,
                               mergeEntries(loadDataJson(f).entries, r.config.name, r.bench)))

\* writeBenchmark has thrown e
Failed(r, e) == [r EXCEPT !.pc = "done", !.result = "threw", !.err = e]

\* lines 271-312 done without a failure; synced: the pull of line 275 was made
LocalPhase(p, c, b, synced) ==
    LET r == runs[p]
        wc0 == IF synced THEN remote.file ELSE r.wc
        ld == loadDataJson(wc0)
        d == DataJson(p, HtmlUrl(c), mergeEntries(ld.entries, c.name, b))
    IN  [r EXCEPT !.pc = "push", !.config = c, !.bench = b,
                  !.base = IF synced THEN remote.ref ELSE r.base,
                  !.parent = wc0, !.wc = storeDataJson(d), !.loaded = ld,
                  !.prevBench = mergePrevBench(ld.entries, c.name, b),
                  !.result = "running"]

\* lines 271-312: switch, sync pull, load, merge, store, add, commit
RaceLocal ==
    /\ \E p \in Procs :
          /\ runs[p].pc = "idle"
          /\ \E c \in RaceConfigs, b \in {RaceBench(p)} :
                \/ runs' = [runs EXCEPT ![p] =
                              LocalPhase(p, c, b, ~c.skipFetchGhPages
                                                  /\ (~c.isPrivateRepo \/ c.githubToken))]
                \/ runs' = [runs EXCEPT ![p] =
                              Failed([@ EXCEPT !.config = c, !.bench = b], CmdError("local"))]
    /\ UNCHANGED << remote, single >>

\* pushGitHubPages, lines 60-68
RaceFirstPush ==
    /\ \E p \in Procs :
          /\ runs[p].pc = "push"
          /\ shouldPush(runs[p].config)
          /\ \/ /\ CanFastForward(runs[p], remote)
                /\ remote' = Pushed(remote, runs[p])
                /\ runs' = [runs EXCEPT ![p] = [@ EXCEPT !.pc = "alert", !.pushed = TRUE]]
             \/ \E e \in PushFailures("push") :
                /\ remote' = remote
                /\ runs' = [runs EXCEPT ![p] =
                              IF retryable(e) THEN [@ EXCEPT !.pc = "rebase"] ELSE Failed(@, e)]
    /\ UNCHANGED single

\* pushGitHubPages, line 73
RaceRebasePull ==
    /\ \E p \in Procs :
          /\ runs[p].pc = "rebase"
          /\ \/ runs' = [runs EXCEPT ![p] =
                            [@ EXCEPT !.pc = "retry", !.retried = TRUE, !.base = remote.ref,
                                      !.parent = remote.file, !.wc = Replay(remote.file, runs[p])]]
             \/ runs' = [runs EXCEPT ![p] = Failed(@, CmdError("pull --rebase"))]
    /\ UNCHANGED << remote, single >>

\* pushGitHubPages, line 74
RaceRetryPush ==
    /\ \E p \in Procs :
          /\ runs[p].pc = "retry"
          /\ \/ /\ CanFastForward(runs[p], remote)
                /\ remote' = Pushed(remote, runs[p])
                /\ runs' = [runs EXCEPT ![p] = [@ EXCEPT !.pc = "alert", !.pushed = TRUE]]
             \/ \E e \in PushFailures("retry") :
                /\ remote' = remote
                /\ runs' = [runs EXCEPT ![p] =
                              IF afterRetryFailure(e) = "finally" THEN Failed(@, e)
                              ELSE [@ EXCEPT !.pc = afterRetryFailure(e)]]
    /\ UNCHANGED single

\* bug: the baseline is looked up again in the history the local commit now sits on
alertBaselineRecomputed(prev, entries, name, b) == mergePrevBench(entries, name, b)

\* lines 325-327: the baseline handed to alert is prevBench as the merge loop
\* (lines 296-301) left it; entries, the history under the local commit, is not read
alertBaseline(prev, entries, name, b) == prev

\* lines 325-342
RaceAlert ==
    /\ \E p \in Procs :
          LET r == runs[p]
              prev == alertBaseline(r.prevBench, loadDataJson(r.parent).entries,
                                    r.config.name, r.bench)
              o == alert(r.config, r.bench, prev, TRUE)
          IN  /\ r.pc = "alert"
              /\ runs' = [runs EXCEPT ![p] =
                            IF isNull(prev)
                            THEN [r EXCEPT !.pc = "done", !.result = "returned"]
                            ELSE [r EXCEPT !.pc = "done", !.called = TRUE, !.passed = prev,
                                           !.alerts = o.alerts, !.err = o.err,
                                           !.result = IF o.err.thrown THEN "threw"
                                                      ELSE "returned"]]
    /\ UNCHANGED << remote, single >>

InitRace ==
    /\ pc = "race"
    /\ config = IdleConfig
    /\ bench = Null
    /\ prevBench = Null
    /\ now = 0
    /\ file = NoFile
    /\ indexHtml = FALSE
    /\ data = EmptyDefault
    /\ loaded = EmptyDefault
    /\ err = NoErr
    /\ result = "idle"
    /\ trace = << >>
    /\ onBranch = "orig"
    /\ alerts = NotComputed
    /\ report = NoReport
    /\ comments = << >>
    /\ arrived = << >>
    /\ file0 = NoFile
    /\ \E f \in RaceFiles :
          /\ remote = Remote(0, f)
          /\ runs = [p \in Procs |-> IdleRun(f)]

NextRace == RaceLocal \/ RaceFirstPush \/ RaceRebasePull \/ RaceRetryPush \/ RaceAlert

SpecRace == InitRace /\ [][NextRace]_vars

-----------------------------------------------------------------------------
(* Properties *)

Ended == result \in {"returned", "threw"}

Did(op) == \E i \in 1..Len(trace) : trace[i].op = op

\* the merge of lines 287-304 completed
Merged == \E i \in 1..Len(trace) : trace[i].op = "merge" /\ trace[i].ok

Indices(op) == { i \in 1..Len(trace) : trace[i].op = op }

Min(S) == CHOOSE m \in S : \A x \in S : m <= x
Max(S) == CHOOSE m \in S : \A x \in S : m >= x

Last == trace[Len(trace)]

SwitchOk == Len(trace) > 0 /\ trace[1].op = "switch" /\ trace[1].ok
SwitchFailed == Len(trace) > 0 /\ trace[1].op = "switch" /\ ~trace[1].ok

\* C1 as claimed: whatever step fails, the branch switch included, `git checkout -`
\* has run when writeBenchmark returns or throws, and the working copy is not left
\* on the publish branch.
C1_RestoreOnEveryExit ==
    Ended => Did("checkout -") /\ onBranch # "publish"

\* C1 amended: once the branch switch has succeeded, whatever later step fails or
\* if none fails, `git checkout -` runs exactly once, as the last call before
\* writeBenchmark returns or throws; if the switch itself fails, writeBenchmark
\* throws without running it and the working copy has not moved; the working copy
\* is left on the publish branch only when `git checkout -` itself fails.
C1_RestoreAfterSwitch ==
    Ended =>
        /\ SwitchOk \/ SwitchFailed
        /\ SwitchOk => Count("checkout -") = 1 /\ Last.op = "checkout -"
        /\ SwitchFailed => /\ ~Did("checkout -")
                           /\ result = "threw"
                           /\ onBranch = "orig"
        /\ onBranch = "publish" => Last.op = "checkout -" /\ ~Last.ok

\* C1 witness: the retried push failed, and the restore ran before the throw
C1_Witness ==
    /\ result = "threw"
    /\ Count("push") = 2
    /\ err.src = "retry"
    /\ Last = Step("checkout -", NoErr)
    /\ onBranch = "orig"

IsRejection(e) == e.thrown /\ e.isError /\ (\E i \in 1..Len(e.message) : e.message[i].text = RemoteRejected)

\* pushGitHubPages has been called and has returned or thrown
PushEnded == Did("push") /\ pc \in {"alert", "finally", "done"}

FirstPushAt == Min(Indices("push"))

\* the first push failed, and not with an Error naming the rejection
OtherFailure(e) == e.thrown /\ ~IsRejection(e)

\* the part of C2 about a first push that fails in another way
C2_NoRetry ==
    LET i == FirstPushAt
    IN  OtherFailure(trace[i].e) =>
            /\ Count("push") = 1
            /\ Count("pull --rebase") = 0
            /\ pc = "finally" => Len(trace) = i /\ err = trace[i].e
            /\ pc = "done"  => Len(trace) = i + 1 /\ Last.op = "checkout -"

\* C2 as claimed: a first push rejected by the remote is followed by exactly one
\* pull --rebase and then exactly one retried push; a first push failing in any
\* other way by no pull and no second push, and its failure propagates at once.
C2_RetryOnce ==
    PushEnded =>
        LET i == FirstPushAt
        IN  /\ IsRejection(trace[i].e) =>
                    /\ Count("pull --rebase") = 1
                    /\ Count("push") = 2
                    /\ Len(trace) >= i + 2
                    /\ trace[i + 1].op = "pull --rebase"
                    /\ trace[i + 2].op = "push"
            /\ C2_NoRetry

\* C2 amended: a first push rejected by the remote is followed by exactly one
\* pull --rebase and, if that pull succeeds, by exactly one retried push (if the
\* pull fails there is no second push and the pull's failure propagates); a first
\* push failing in any other way is followed by no pull and no second push, and
\* its failure propagates at once.
C2_RetryOnceIfRebased ==
    PushEnded =>
        LET i == FirstPushAt
        IN  /\ IsRejection(trace[i].e) =>
                    /\ Count("pull --rebase") = 1
                    /\ Len(trace) >= i + 1
                    /\ trace[i + 1].op = "pull --rebase"
                    /\ IF trace[i + 1].ok
                       THEN /\ Count("push") = 2
                            /\ Len(trace) >= i + 2
                            /\ trace[i + 2].op = "push"
                       ELSE /\ Count("push") = 1
                            /\ pc = "finally" => Len(trace) = i + 1 /\ err = trace[i + 1].e
            /\ C2_NoRetry

\* C2 witness: rejected, rebased, pushed again with success
C2_Witness ==
    /\ pc = "alert"
    /\ Count("push") = 2
    /\ IsRejection(trace[FirstPushAt].e)
    /\ trace[FirstPushAt + 1] = Step("pull --rebase", NoErr)
    /\ Last = Step("push", NoErr)

\* the retried push, when there was one
RetriedPushAt == Max(Indices("push"))

\* the pull --rebase or the retried push has failed
RetryFailed ==
    \/ \E i \in Indices("pull --rebase") : ~trace[i].ok
    \/ Count("push") = 2 /\ ~trace[RetriedPushAt].ok

\* C3: one invocation makes at most two push attempts and at most one pull
\* --rebase; when the pull --rebase or the retried push fails (the push even with a
\* rejection again) nothing is retried: the next call is the restore, the alert
\* step is not run and writeBenchmark throws (that failure, unless the restore
\* fails too).
C3_SecondFailureIsFatal ==
    /\ Count("push") <= 2
    /\ Count("pull --rebase") <= 1
    /\ RetryFailed =>
            /\ ~Did("alertStep")
            /\ pc \in {"finally", "done"}
            /\ pc = "finally" => ~Last.ok /\ Last.op \in {"pull --rebase", "push"} /\ err = Last.e
            /\ pc = "done" =>
                    /\ result = "threw"
                    /\ Last.op = "checkout -"
                    /\ ~trace[Len(trace) - 1].ok
                    /\ trace[Len(trace) - 1].op \in {"pull --rebase", "push"}
                    /\ Last.ok => err = trace[Len(trace) - 1].e

\* C3 witness: the retried push was rejected again, and writeBenchmark threw that
C3_Witness ==
    /\ pc = "done"
    /\ result = "threw"
    /\ Count("push") = 2
    /\ Count("pull --rebase") = 1
    /\ IsRejection(trace[RetriedPushAt].e)
    /\ err = trace[RetriedPushAt].e

\* C4 as claimed: whenever the alert step is entered, a push has succeeded before
\* it in the same execution.
C4_AlertOnlyAfterPush ==
    Did("alertStep") =>
        \E i \in Indices("push") : trace[i].ok /\ i < Min(Indices("alertStep"))

\* C4 amended: the alert step is entered only when the push step has not failed:
\* with a token and auto-push set, after a push (the first or the retried one) has
\* succeeded, and otherwise with no push attempted at all; no call before the
\* alert step has failed, but for a first push that was rejected and retried.
C4_AlertOnlyAfterPushStep ==
    Did("alertStep") =>
        LET a == Min(Indices("alertStep"))
        IN  /\ IF config.githubToken /\ config.autoPush
               THEN /\ trace[a - 1].op = "push"
                    /\ trace[a - 1].ok
               ELSE Count("push") = 0 /\ trace[a - 1].op = "commit"
            /\ \A i \in 1..(a - 1) :
                    ~trace[i].ok => trace[i].op = "push" /\ i = FirstPushAt /\ Count("push") = 2

\* C4 witness: the alert ran after the retried push succeeded
C4_Witness ==
    /\ Did("alert")
    /\ alerts.computed
    /\ Count("push") = 2
    /\ trace[RetriedPushAt].ok
    /\ RetriedPushAt < Min(Indices("alert"))

-----------------------------------------------------------------------------
(* The regression check, stated apart from findAlerts *)

\* entries[name] as it was loaded, before the append
Prior == IF config.name \in DOMAIN loaded.entries THEN loaded.entries[config.name] ELSE << >>

\* the ratio of a / b exceeds t: a / 0 is infinite for a > 0 and undefined for a = 0
Exceeds(a, b, t) == (b = 0 /\ a > 0) \/ (b > 0 /\ a * t.d > t.n * b)

SameNamed(prev, c) == { j \in 1..Len(prev.benches) : prev.benches[j].name = c.name }

\* the measurements of cur that alert: those with a same-named baseline measurement,
\* the first of them giving a ratio above the threshold
Alerting(cur, prev, t) ==
    { i \in 1..Len(cur.benches) :
        LET c == cur.benches[i]
        IN  /\ SameNamed(prev, c) # {}
            /\ LET p == prev.benches[Min(SameNamed(prev, c))]
               IN  IF cur.tool \in {"cargo", "go"}
                   THEN Exceeds(c.value, p.value, t)
                   ELSE Exceeds(p.value, c.value, t) }

\* the alert expected for measurement i of cur
ExpectedAlert(cur, prev, i) ==
    LET c == cur.benches[i]
        p == prev.benches[Min(SameNamed(prev, c))]
    IN  [current |-> c, prev |-> p,
         ratio |-> IF cur.tool \in {"cargo", "go"}
                   THEN [n |-> c.value, d |-> p.value]
                   ELSE [n |-> p.value, d |-> c.value]]

\* list holds exactly the alerts expected of cur against prev, in the order of cur.benches
IsExpected(list, cur, prev, t) ==
    /\ Len(list) = Cardinality(Alerting(cur, prev, t))
    /\ \E f \in [1..Len(list) -> Alerting(cur, prev, t)] :
            /\ \A k \in 1..Len(list) : list[k] = ExpectedAlert(cur, prev, f[k])
            /\ \A k, l \in 1..Len(list) : k < l => f[k] < f[l]

\* no entry loaded for the suite has another commit id than the new entry
NoBaseline == \A i \in 1..Len(Prior) : Prior[i].commit.id = bench.commit.id

\* C8: when there is no baseline (no prior entry for the suite, or every prior
\* entry has the new entry's commit id) nothing of the regression check happens,
\* whatever comment-on-alert, fail-on-alert, threshold and token are: findAlerts
\* is not run, no report is built, no comment is posted, and writeBenchmark does
\* not throw from the alert step.
C8_NoBaselineNoCheck ==
    (Merged /\ NoBaseline) =>
        /\ prevBench = Null
        /\ ~alerts.computed
        /\ ~report.built
        /\ ~Did("alert")
        /\ ~Did("createCommitComment")
        /\ comments = << >>
        /\ err.src # "alert"
        /\ (pc = "done" /\ Did("alertStep") /\ Last.ok) => result = "returned"

\* C8 witness: a rerun (the only prior entry has the new entry's commit id) with
\* comment-on-alert and fail-on-alert set, threshold 0 and no token, has returned
C8_Witness ==
    /\ result = "returned"
    /\ Did("alertStep")
    /\ NoBaseline
    /\ Len(Prior) = 1
    /\ config.commentOnAlert /\ config.failOnAlert /\ ~config.githubToken
    /\ config.alertThreshold = Num(0)

ThresholdZero == config.alertThreshold.n = 0

\* C10 as claimed: with threshold 0, whenever a baseline exists the alert step
\* produces a report covering every compared metric whose ratio is > 0, and
\* writeBenchmark does not throw from the alert step, whatever the two flags are.
C10_ThresholdZeroNeverFails ==
    (ThresholdZero /\ Did("alert")) =>
        /\ err.src # "alert"
        /\ report.built
        /\ IsExpected(report.rows, bench, prevBench, Num(0))

\* C10 amended: with threshold 0 and a baseline, the alert step throws only when
\* some compared metric has a ratio > 0 and fail-on-alert is set, or
\* comment-on-alert is set and the token is missing or the comment call fails, or
\* the repository context is missing; when comment-on-alert or fail-on-alert is
\* set, the repository context is there and some compared metric has a ratio > 0,
\* it builds a report titled "Performance Report" whose rows are exactly the
\* compared metrics with a ratio > 0, in order; so with fail-on-alert unset, and
\* comment-on-alert unset or its comment posted, writeBenchmark does not throw on
\* account of the report.
C10_ThresholdZeroReports ==
    (ThresholdZero /\ Did("alert")) =>
        LET positive == Alerting(bench, prevBench, Num(0))
            flagged == config.commentOnAlert \/ config.failOnAlert
        IN  /\ alerts.computed = flagged
            /\ alerts.computed => IsExpected(alerts.list, bench, prevBench, Num(0))
            /\ report.built => /\ report.title = "# Performance Report"
                                /\ report.rows = alerts.list
                                /\ report.rows # << >>
            /\ (flagged /\ config.repository /\ positive # {}) => report.built
            /\ err.src = "alert" =>
                    /\ flagged
                    /\ positive # {}
                    /\ \/ ~config.repository
                       \/ config.commentOnAlert /\ ~config.githubToken
                       \/ /\ config.commentOnAlert
                          /\ \E i \in Indices("createCommitComment") : ~trace[i].ok
                       \/ config.failOnAlert

\* C10 witness: threshold 0, baseline value 1 and current value 1 (ratio 1 > 0) for
\* a smaller-is-better tool: the report is built and posted, fail-on-alert is
\* unset and writeBenchmark returns
C10_Witness ==
    /\ ThresholdZero
    /\ result = "returned"
    /\ config.commentOnAlert /\ ~config.failOnAlert
    /\ bench.tool = "cargo"
    /\ report.built
    /\ Len(report.rows) = 1
    /\ report.rows[1].ratio = Div(1, 1)
    /\ Len(comments) = 1
    /\ comments[1].body = report

-----------------------------------------------------------------------------
(* The history *)

\* C5: the merge changes the loaded entries only by appending the new entry as
\* the last element of entries[name] (a one-element sequence when the suite was
\* absent): the earlier elements of entries[name] and every other suite's
\* sequence are as loaded, and lastUpdate and repoUrl are overwritten.
C5_MergeAppendsOneEntry ==
    Merged =>
        LET old == loaded.entries
            new == data.entries
            name == config.name
        IN  /\ DOMAIN new = DOMAIN old \cup {name}
            /\ \A n \in DOMAIN old \ {name} : new[n] = old[n]
            /\ Len(new[name]) = Len(Prior) + 1
            /\ new[name][Len(new[name])] = bench
            /\ \A i \in 1..Len(Prior) : new[name][i] = Prior[i]
            /\ data.lastUpdate = now
            /\ data.repoUrl = htmlUrl

\* C5 witness: an entry merged into a suite that had entries, beside another suite,
\* over a repoUrl and a lastUpdate that were different
C5_Witness ==
    /\ Merged
    /\ config.name = "s1"
    /\ DOMAIN loaded.entries = {"s1", "s2"}
    /\ Len(data.entries["s1"]) = 2
    /\ loaded.repoUrl = "old" /\ data.repoUrl # "old"
    /\ loaded.lastUpdate # data.lastUpdate

\* entries[n] of the history a load of f gives
Stored(f, n) ==
    LET d == loadDataJson(f)
    IN  IF n \in DOMAIN d.entries THEN d.entries[n] ELSE << >>

\* the entries written for suite n, in arrival order
ArrivedFor(n) ==
    LET IsFor(a) == a.name = n
        mine == SelectSeq(arrived, IsFor)
    IN  [i \in 1..Len(mine) |-> mine[i].bench]

StartedEmpty == file0 \in {NoFile, fileEmpty}

\* C6: from an empty or missing file, after N publishes that wrote the file the
\* stored entries[name] is the N entries in arrival order, repeated commit ids
\* included; and every write extends what was stored (nothing is removed,
\* reordered, deduplicated or changed).
C6_AppendOnly ==
    /\ [](StartedEmpty => \A n \in SuiteNames : Stored(file, n) = ArrivedFor(n))
    /\ [][\A n \in SuiteNames : IsPrefix(Stored(file, n), Stored(file', n))]_vars

\* C6 witness: three publishes for one suite from a missing file, two of them for
\* the same commit, are stored in arrival order
C6_Witness ==
    /\ file0 = NoFile
    /\ pc = "done"
    /\ Len(Stored(file, "s1")) = 3
    /\ Stored(file, "s1")[1].commit.id = "C"
    /\ Stored(file, "s1")[2].commit.id = "B"
    /\ Stored(file, "s1")[3].commit.id = "B"

\* the indices of the prior entries whose commit id is not the new entry's
Differing == { i \in 1..Len(Prior) : Prior[i].commit.id # bench.commit.id }

\* C7: the baseline chosen at the merge is the entry of entries[name], as it was
\* before the append, with the largest index among those whose commit id differs
\* from the new entry's; there is none when the suite is absent or empty or
\* every prior entry has the new entry's commit id.
C7_BaselineIsLastDifferingCommit ==
    Merged =>
        IF Differing = {} THEN prevBench = Null
        ELSE prevBench = Prior[Max(Differing)]

\* C7 witness: prior commit ids A, A, B, C and a new entry for C: the baseline is
\* the entry for B
C7_Witness ==
    /\ Merged
    /\ [i \in 1..Len(Prior) |-> Prior[i].commit.id] = << "A", "A", "B", "C" >>
    /\ bench.commit.id = "C"
    /\ prevBench = Prior[3]
    /\ prevBench.commit.id = "B"

-----------------------------------------------------------------------------
(* findAlerts *)

\* C9: findAlerts returns one Alert for each measurement c of current.benches, in
\* that order, that has a same-named measurement in baseline.benches and whose
\* ratio against the first of them, p, is above the threshold: c.value / p.value
\* for cargo and go, p.value / c.value for benchmarkjs and pytest; a measurement
\* without a same-named baseline measurement gives no Alert.
C9_FindAlerts ==
    pc = "found" =>
        /\ alerts.computed
        /\ IsExpected(alerts.list, bench, prevBench, config.alertThreshold)

\* C9 witness: a bigger-is-better tool, a baseline with two measurements of one
\* name and different values, one measurement alerting and another not
C9_Witness ==
    /\ pc = "found"
    /\ bench.tool = "pytest"
    /\ Len(bench.benches) = 2
    /\ Len(alerts.list) = 1
    /\ alerts.list[1].current = bench.benches[2]
    /\ Len(prevBench.benches) = 2
    /\ prevBench.benches[1].name = prevBench.benches[2].name
    /\ prevBench.benches[1].value # prevBench.benches[2].value
    /\ alerts.list[1].prev = prevBench.benches[1]

-----------------------------------------------------------------------------
(* The alert step: credential, comment and failure *)

TokenError == Error("alert", << Frag("'comment-on-alert' is set but github-token is not set") >>)

TokenRaised == \E i \in 1..Len(trace) : trace[i].e = TokenError

\* every collaborator call of the run succeeded
NoCallFailed == \A i \in 1..Len(trace) : trace[i].ok \/ trace[i].op = "throw"

\* the alert step was reached with a baseline against which some measurement alerts
AlertFound ==
    /\ Did("alertStep")
    /\ Differing # {}
    /\ Alerting(bench, Prior[Max(Differing)], config.alertThreshold) # {}

\* C11 as stated: whenever comment-on-alert is requested and no github-token is
\* configured, the publish ends in the fatal configuration error, and no push and
\* no commit comment was made by it. (Stated for the runs in which no git,
\* file-system or API call fails.)
C11_MissingTokenAlwaysFatal ==
    (pc = "done" /\ config.commentOnAlert /\ ~config.githubToken /\ NoCallFailed) =>
        /\ result = "threw"
        /\ err = TokenError
        /\ ~Did("push")
        /\ comments = << >>

\* C11 amended: with comment-on-alert requested and no github-token, the
\* configuration error is raised exactly when the alert step is reached with a
\* baseline, finds at least one alert and the repository context is available;
\* it then is the failure of writeBenchmark (unless the restore fails), and in
\* every such publish no push, no rebase and no commit comment is made.
C11_MissingTokenFatalOnAlert ==
    (config.commentOnAlert /\ ~config.githubToken) =>
        /\ ~Did("push") /\ ~Did("pull --rebase") /\ ~Did("createCommitComment")
        /\ comments = << >>
        /\ TokenRaised <=> (AlertFound /\ config.repository)
        /\ (TokenRaised /\ pc = "done" /\ Last.ok) => (result = "threw" /\ err = TokenError)

\* C11 witness: auto-push is requested, the token is missing, an alert is found
\* and the publish ended in the configuration error
C11_Witness ==
    /\ pc = "done"
    /\ config.commentOnAlert /\ ~config.githubToken /\ config.autoPush
    /\ AlertFound
    /\ result = "threw"
    /\ err = TokenError
    /\ Did("commit")

\* findAlerts ran (a flag is set) and returned at least one alert
AlertsReturned == AlertFound /\ (config.commentOnAlert \/ config.failOnAlert)

\* the successful createCommitComment calls and the failures raised by alert itself
Posted == { i \in Indices("createCommitComment") : trace[i].ok }

Raised == Indices("throw")

\* the report is the one composed for the new entry against the baseline
ReportComposed ==
    /\ report.built
    /\ report.current = bench.commit.id
    /\ report.previous = Prior[Max(Differing)].commit.id
    /\ IsExpected(report.rows, bench, Prior[Max(Differing)], config.alertThreshold)

TheComment == [commit_sha |-> bench.commit.id, body |-> report]

\* C12 as stated: when a baseline exists and findAlerts returns at least one
\* Alert, then with comment-on-alert and a token exactly one commit comment
\* carrying the report is posted on the new entry's commit id; with fail-on-alert
\* writeBenchmark fails with an error whose message starts with the report; with
\* both, the comment precedes the failure; with comment-on-alert only the publish
\* succeeds. (Stated for the runs in which no git, file-system or API call fails
\* and the repository context is available; the comment clauses are read with a
\* token present, the fail-on-alert clause as written.)
C12_CommentAndFail ==
    (pc = "done" /\ AlertsReturned /\ config.repository /\ NoCallFailed) =>
        /\ (config.commentOnAlert /\ config.githubToken) =>
                (Cardinality(Posted) = 1 /\ comments = << TheComment >> /\ ReportComposed)
        /\ config.failOnAlert =>
                /\ result = "threw"
                /\ err.message # << >>
                /\ err.message[1] = BodyFrag(report)
                /\ ReportComposed
        /\ (config.failOnAlert /\ config.commentOnAlert /\ config.githubToken) =>
                (Posted # {} /\ \A i \in Posted, j \in Raised : i < j)
        /\ (config.commentOnAlert /\ config.githubToken /\ ~config.failOnAlert) =>
                result = "returned"

\* C12 amended: when a baseline exists, findAlerts returns at least one Alert and
\* the repository context is available, the report is composed; with
\* comment-on-alert and a token exactly one createCommitComment call is made, on
\* the new entry's commit id and carrying the report, and without a token or
\* without comment-on-alert none is made; with fail-on-alert, and comment-on-alert
\* unset or its comment posted, alert raises once, after the comment, an error
\* whose message starts with the report, and it is the failure of writeBenchmark
\* unless the restore fails; with comment-on-alert only and the comment posted
\* nothing is raised; with comment-on-alert and no token the configuration error
\* is raised instead of the report, whatever fail-on-alert is.
C12_CommentThenFail ==
    (pc \in {"finally", "done"} /\ AlertsReturned /\ config.repository) =>
        /\ ReportComposed
        /\ IF config.commentOnAlert /\ config.githubToken
           THEN /\ Cardinality(Indices("createCommitComment")) = 1
                /\ comments = IF Posted # {} THEN << TheComment >> ELSE << >>
           ELSE /\ Indices("createCommitComment") = {}
                /\ comments = << >>
        /\ (config.failOnAlert /\ (~config.commentOnAlert \/ Posted # {})) =>
                /\ Cardinality(Raised) = 1
                /\ \A j \in Raised :
                      /\ trace[j].e.isError
                      /\ trace[j].e.message # << >>
                      /\ trace[j].e.message[1] = BodyFrag(report)
                      /\ \A i \in Posted : i < j
                      /\ (pc = "done" /\ Last.ok) => (result = "threw" /\ err = trace[j].e)
        /\ (~config.failOnAlert /\ Posted # {}) =>
                /\ Raised = {}
                /\ (pc = "done" /\ Last.ok) => result = "returned"
        /\ (config.commentOnAlert /\ ~config.githubToken) =>
                /\ Cardinality(Raised) = 1
                /\ \A j \in Raised : trace[j].e = TokenError

\* C12 witness: both flags and a token, the comment was posted and then
\* writeBenchmark failed with the report as the start of the message
C12_Witness ==
    /\ pc = "done"
    /\ AlertFound
    /\ config.commentOnAlert /\ config.failOnAlert /\ config.githubToken
    /\ comments = << TheComment >>
    /\ Posted # {}
    /\ result = "threw"
    /\ err.message # << >>
    /\ err.message[1] = BodyFrag(report)
    /\ Len(err.message) = 3

\* C13: with neither comment-on-alert nor fail-on-alert set the alert step is a
\* no-op, whatever the new entry, the baseline and the threshold are: no alerts
\* are computed, no report is built, no comment is posted and nothing is raised,
\* so that writeBenchmark returns unless the restore fails.
C13_DisabledAlertIsNoOp ==
    (~config.commentOnAlert /\ ~config.failOnAlert /\ Did("alertStep")) =>
        /\ ~alerts.computed
        /\ alerts.list = << >>
        /\ report = NoReport
        /\ comments = << >>
        /\ Indices("createCommitComment") = {}
        /\ Raised = {}
        /\ pc = "finally" => ~err.thrown
        /\ (pc = "done" /\ Last.ok) => result = "returned"

\* C13 witness: both flags off, alert was called with a baseline against which
\* the new entry would alert, and writeBenchmark returned
C13_Witness ==
    /\ pc = "done"
    /\ ~config.commentOnAlert /\ ~config.failOnAlert
    /\ Did("alert")
    /\ AlertFound
    /\ result = "returned"
    /\ ~alerts.computed

-----------------------------------------------------------------------------
(* The load of data.js *)

\* the file can be read and is the prefix followed by one document of the History shape
ParsesAsHistory(f) ==
    /\ f.exists /\ f.readable
    /\ Len(f.text) = Len(SCRIPT_PREFIX) + 1
    /\ SubSeq(f.text, 1, Len(SCRIPT_PREFIX)) = SCRIPT_PREFIX
    /\ f.text[Len(f.text)].kind = "json"
    /\ f.text[Len(f.text)].doc.type = "History"

\* C14: loadDataJson never propagates an error and fails closed: for a missing
\* file, an unreadable file, or a file whose content after the prefix does not
\* parse as a document of the History shape it returns exactly the empty
\* default, so what is handed to the merge always is a History and the merge
\* never fails on it.
C14_LoadFailsClosed ==
    /\ \A i \in Indices("load") : trace[i].ok
    /\ (Did("load") /\ ~Did("store") /\ ~ParsesAsHistory(file)) => loaded = EmptyDefault
    /\ Did("load") => loaded.type = "History"
    /\ \A i \in Indices("merge") : trace[i].ok

-----------------------------------------------------------------------------
(* The order of the steps of one publish *)

\* the place of trace entry i in the order of the steps; a push after the
\* rebase is the retried push
Rank(i) ==
    LET op == trace[i].op
    IN  CASE op = "switch" -> 1
          [] op \in {"pull", "warning: 'git pull' was skipped"} -> 2
          [] op = "mkdirP" -> 3
          [] op = "load" -> 4
          [] op = "merge" -> 5
          [] op = "store" -> 6
          [] op = "add" -> 7
          [] op = "write index.html" -> 8
          [] op = "add index.html" -> 9
          [] op = "commit" -> 10
          [] op = "push" -> IF \E r \in Indices("pull --rebase") : r < i THEN 13 ELSE 11
          [] op = "pull --rebase" -> 12
          [] op = "alertStep" -> 14
          [] op = "alert" -> 15
          [] op = "createCommitComment" -> 16
          [] op = "throw" -> 17
          [] op = "checkout -" -> 18
          [] OTHER -> 0

\* op happened exactly once, with success, before trace entry f
OnceBefore(op, f) ==
    /\ Cardinality(Indices(op)) = 1
    /\ \A i \in Indices(op) : i < f /\ trace[i].ok

\* C16: the steps of one publish occur in the order switch, optional sync pull,
\* load, merge, store, stage, commit, optional push with at most one rebase and
\* retry, optional alert, restore; on a run that reaches the push, load, merge,
\* store and commit each happened exactly once and before the first push; the
\* retry path is pull --rebase and push only; the invocation contributes exactly
\* one entry and one commit.
C16_StepOrder ==
    /\ \A i, j \in 1..Len(trace) : i < j => (0 < Rank(i) /\ Rank(i) < Rank(j))
    /\ Cardinality(Indices("push")) <= 2
    /\ Cardinality(Indices("pull --rebase")) <= 1
    /\ (pc = "done" /\ SwitchOk) => Last.op = "checkout -"
    /\ Did("push") =>
          /\ OnceBefore("load", FirstPushAt)
          /\ OnceBefore("merge", FirstPushAt)
          /\ OnceBefore("store", FirstPushAt)
          /\ OnceBefore("add", FirstPushAt)
          /\ OnceBefore("commit", FirstPushAt)
          /\ Len(arrived) = 1
          /\ arrived[1] = [name |-> config.name, bench |-> bench]
          /\ data.entries[config.name] = Append(Prior, bench)
          /\ Stored(file, config.name) = Append(Prior, bench)

\* C16 witness: a complete run with sync pull, a rejected first push, the rebase,
\* a successful retried push, an alert comment and the restore
C16_Witness ==
    /\ pc = "done"
    /\ result = "returned"
    /\ Did("pull")
    /\ Cardinality(Indices("push")) = 2
    /\ Did("pull --rebase")
    /\ Did("createCommitComment")
    /\ Count("load") = 1 /\ Count("commit") = 1
    /\ Len(Prior) = 4
    /\ Len(data.entries[config.name]) = 5
    /\ Last.op = "checkout -"

-----------------------------------------------------------------------------
(* The sync pull *)

PullSkippedWarning == "warning: 'git pull' was skipped"

\* the run is past the sync pull of lines 274-281
PastSyncPull == SwitchOk /\ pc \notin {"idle", "switch", "pull"}

\* C17: the sync pull is performed if and only if skip-remote-sync is not set
\* and the repository is not private or a token is present; a skipped sync does
\* not fail the publish, which goes on with the load of the local state; and the
\* warning about the skipped pull is emitted only when the repository is private
\* and no token is set.
C17_SyncPullRule ==
    /\ PastSyncPull =>
          (Did("pull") <=>
              (~config.skipFetchGhPages /\ (~config.isPrivateRepo \/ config.githubToken)))
    /\ (PastSyncPull /\ ~Did("pull")) => (pc = "mkdir" \/ Did("mkdirP"))
    /\ Did(PullSkippedWarning) => (config.isPrivateRepo /\ ~config.githubToken)

-----------------------------------------------------------------------------
(* A failure of the alert step *)

\* the trace entries at which alert (lines 209-248) threw
AlertFailures ==
    { i \in 1..Len(trace) : trace[i].op \in {"throw", "createCommitComment"} /\ ~trace[i].ok }

\* C19: whenever the alert step makes writeBenchmark fail, the new entry has
\* already been stored and committed and, with a token and auto-push, pushed;
\* nothing is undone by the failure (data.js still holds the entry and the only
\* git command after the failure is the restore), the restore runs and
\* writeBenchmark throws.
C19_AlertFailureKeepsPublish ==
    \A f \in AlertFailures :
        /\ OnceBefore("store", f)
        /\ OnceBefore("commit", f)
        /\ Stored(file, config.name) = Append(Prior, bench)
        /\ (config.githubToken /\ config.autoPush) =>
              (Did("push") /\ RetriedPushAt < f /\ trace[RetriedPushAt].ok)
        /\ ~(config.githubToken /\ config.autoPush) => ~Did("push")
        /\ \A i \in (f + 1)..Len(trace) : trace[i].op = "checkout -"
        /\ pc \in {"finally", "done"}
        /\ pc = "done" => (Last.op = "checkout -" /\ result = "threw")

\* C19 witness: the entry was pushed after a retry, the comment call failed and
\* writeBenchmark threw the comment's error after the restore
C19_Witness ==
    /\ pc = "done"
    /\ result = "threw"
    /\ AlertFailures # {}
    /\ \E f \in AlertFailures : trace[f].op = "createCommitComment" /\ err = trace[f].e
    /\ Cardinality(Indices("push")) = 2
    /\ Last.op = "checkout -" /\ Last.ok
    /\ onBranch = "orig"
    /\ Len(Stored(file, config.name)) = Len(Prior) + 1

\* C20: a push is attempted only with both a token and auto-push; otherwise the
\* invocation performs no push and no pull --rebase, the commit stays local, and
\* the publish goes from the commit straight on to the alert step, without an
\* error on that account.
C20_PushOnlyIfTokenAndAutoPush ==
    /\ (Did("push") \/ Did("pull --rebase")) => (config.githubToken /\ config.autoPush)
    /\ (~(config.githubToken /\ config.autoPush) /\ Did("commit") /\ trace[Max(Indices("commit"))].ok) =>
          /\ ~Did("push") /\ ~Did("pull --rebase")
          /\ pc = "push" => ~err.thrown
          /\ pc \in {"push", "alert", "finally", "done"}
          /\ pc \in {"finally", "done"} =>
                (Did("alertStep") /\ Max(Indices("commit")) + 1 = Min(Indices("alertStep")))
          /\ (pc = "done" /\ result = "threw") => (AlertFailures # {} \/ ~Last.ok)

\* C20 witness: a token without auto-push, the publish committed, pushed nothing,
\* ran the alert comparison and returned
C20_Witness ==
    /\ pc = "done"
    /\ config.githubToken /\ ~config.autoPush
    /\ Did("commit") /\ ~Did("push")
    /\ alerts.computed
    /\ result = "returned"

-----------------------------------------------------------------------------
(* Concurrent invocations *)

Occurrences(b, seq) == Cardinality({ i \in 1..Len(seq) : seq[i] = b })

\* C15: in every interleaving of the invocations, each on a working copy of its
\* own, the history of every suite at the remote only grows by appends (so no
\* pushed entry is lost or overwritten), and every invocation whose first or
\* retried push succeeded has its entry in the remote history of its suite
\* exactly once.
C15_ConcurrentPublishes ==
    /\ [][\A n \in SuiteNames : IsPrefix(Stored(remote.file, n), Stored(remote'.file, n))]_vars
    /\ [](\A p \in Procs :
            runs[p].pushed =>
                \A n \in SuiteNames :
                    Occurrences(runs[p].bench, Stored(remote.file, n))
                        = IF n = runs[p].config.name THEN 1 ELSE 0)

\* C15 witness: two invocations for one suite, the first lost the race, rebased
\* and pushed with its retry; the remote holds the old entry and both new ones
C15_Witness ==
    /\ runs[1].pushed /\ runs[2].pushed
    /\ runs[1].retried /\ ~runs[2].retried
    /\ runs[1].config.name = "s1" /\ runs[2].config.name = "s1"
    /\ remote.ref = 2
    /\ Stored(remote.file, "s1") = << entryA, runs[2].bench, runs[1].bench >>

\* the last entry with another commit id in the history r loaded, Null if none
MergeTimeBaseline(r) ==
    LET prior == IF r.config.name \in DOMAIN r.loaded.entries
                 THEN r.loaded.entries[r.config.name] ELSE << >>
        d == { i \in 1..Len(prior) : prior[i].commit.id # r.bench.commit.id }
    IN  IF d = {} THEN Null ELSE prior[Max(d)]

\* C18: the baseline passed to alert is the entry selected at the merge from
\* the history loaded before the first push; it is not looked up again after a
\* pull --rebase, so the comparison is made against it also when another
\* invocation's entry for the suite has reached the remote in between.
C18_BaselineFromMergeTime ==
    \A p \in Procs :
        LET r == runs[p]
        IN  /\ r.called =>
                  /\ r.passed # Null
                  /\ r.passed = MergeTimeBaseline(r)
                  /\ r.alerts.computed
                  /\ IsExpected(r.alerts.list, r.bench, MergeTimeBaseline(r),
                                r.config.alertThreshold)
            /\ (r.pc = "done" /\ r.pushed /\ ~r.called) => MergeTimeBaseline(r) = Null

\* C18 witness: invocation p pushed with its retry after the rebase put its
\* commit on top of q's entry for the same suite; alert compared p's entry with
\* the older baseline and found an alert that q's entry would not have given
C18_Witness ==
    \E p, q \in Procs :
        /\ p # q
        /\ runs[p].retried /\ runs[p].pushed /\ runs[p].called
        /\ runs[q].pushed
        /\ runs[p].config.name = runs[q].config.name
        /\ mergePrevBench(loadDataJson(runs[p].parent).entries, runs[p].config.name,
                          runs[p].bench) = runs[q].bench
        /\ runs[p].passed # runs[q].bench
        /\ runs[p].alerts.list # << >>
        /\ Alerting(runs[p].bench, runs[q].bench, runs[p].config.alertThreshold) = {}

=============================================================================
